---- MODULE Spec2Model ----
\* Model of package spackler (spackler.go): a Caddy tracks goroutines with a
\* sync.WaitGroup, starts one listener goroutine (sync.Once) that turns the
\* first receive on sigChan into close(stopChan), and refuses Go on a
\* top-level Caddy once stopChan is closed.
EXTENDS Integers, Naturals, FiniteSets, Sequences, TLC

\* ---------------------------------------------------------------- bounds
\* Number of tracked goroutines the callers may start in one behaviour.
MaxTasks == 2

\* ------------------------------------------------------------ processes
\* Untracked goroutines, numbered below zero (the tracked ones from 1); they
\* hold the root Caddy. Main makes every kind of call; Helper, like the
\* goroutine of the tests' wait(), only waits and requests the stop.
Main == -1
Helper == -2
Roots == {Main, Helper}
\* Tracked goroutines started by Go, numbered in the order of wg.Add.
Tasks == 1..MaxTasks
Procs == Roots \cup Tasks

\* The root Caddy is caddy 0; copy() mints caddies 1, 2, ...
RootCaddy == 0
Caddies == 0..MaxTasks

\* Values that can arrive on sigChan. "nil" is the zero value a receive on
\* a closed channel yields.
SIGINT == "SIGINT"
SIGTERM == "SIGTERM"
SigVals == {SIGINT, SIGTERM}
ZeroSig == "nil"

\* The run-time panics of the operations modelled.
NoPanic == "none"
SendOnClosed == "send on closed channel"
CloseOfClosed == "close of closed channel"
PanicInF == "panic in f"

ErrStopping == "ErrStopping"
Nil == "nil"

VARIABLES
    o,              \* sync.Once: TRUE once listen()'s body has run
    wg,             \* sync.WaitGroup counter
    stopChan,       \* "open" | "closed"
    sigChan,        \* "open" | "closed" (unbuffered)
    notifyDefault,  \* *c.notifyDefault (stopOnOS)
    notified,       \* signal.Notify(c.sigChan, ...) has been called
    listener,       \* "none" | "recv" | "closing" | "done"
    sigVal,         \* value the listener's receive yielded
    closes,         \* number of close(c.stopChan) executed
    crashed,        \* "none", or the unrecovered panic that ended the process
    pc,             \* position of every goroutine
    callCaddy,      \* caddy a goroutine's current method call is made on
    isTopLevel,     \* isTopLevel field of every minted Caddy
    nCaddy,         \* number of Caddies minted so far (root included)
    ref,            \* the objects every Caddy's reference fields point to
    taskCaddy,      \* the Caddy handed to a tracked goroutine's function
    nTasks,         \* number of tracked goroutines started so far
    ret,            \* what a goroutine's last completed call returned
    runImm,         \* runImmediately of a Looper call that is starting
    looped,         \* a Looper call has been made
    hist            \* history (see HistInit)

vars == <<o, wg, stopChan, sigChan, notifyDefault, notified, listener,
          sigVal, closes, crashed, pc, callCaddy, isTopLevel, nCaddy,
          taskCaddy, nTasks, ret, runImm, looped, hist, ref>>

shared == <<o, wg, stopChan, sigChan, notified, listener, sigVal, closes>>
caddies == <<isTopLevel, nCaddy, taskCaddy, nTasks, ref>>
loopv == <<runImm, looped>>

\* --------------------------------------------------------- construction
\* History recorded for the properties; it never guards an action.
\*   stopReturned : some Stop() call has returned
\*   waited       : "fresh" when a Wait() has returned and neither Go nor
\*                  Looper has been called yet; "used" when the last Wait()
\*                  to return did so after such a call; else "no"
\*   trigger      : what served the receive of a listener that has not yet
\*                  exited: "stop", "write", "close" or "os"
\*   passedClosed : goroutines whose Go went past the admission check while
\*                  stopChan was closed, until their wg.Add
\*   lateGo       : goroutines inside a Go call that started after a Stop()
\*                  had returned or sigChan had been closed
\*   overtaken    : goroutines admitted by Go's check that have since seen a
\*                  Wait return before their wg.Add
\*   counter      : increments of the callers' shared counter performed by
\*                  tracked functions (one each, just before returning)
\*   afterStop    : -1 while no Stop() has returned during the Looper call in
\*                  progress; else the invocations of f the loop has started
\*                  since that return (0, 1, or 2 for "two or more")
\*   calledStopped : the Looper call in progress was made with stopChan
\*                  already closed (kept until the loop is entered)
\*   panicIn      : "none", or the operation whose panic ended the process:
\*                  "stop", "write" (a send into SigChan()), "os", "other"
HistInit ==
    [stopReturned |-> FALSE, waited |-> "no", trigger |-> "none",
     passedClosed |-> {}, lateGo |-> {}, overtaken |-> {},
     counter |-> 0, afterStop |-> -1, calledStopped |-> FALSE,
     panicIn |-> "none"]

\* History counters tell 0, 1 and "two or more" apart.
Tally(n) == IF n < 2 THEN n + 1 ELSE n

\* The reference fields of a Caddy (spackler.go, type Caddy).
Fields == {"o", "wg", "stopChan", "sigChan", "notifyDefault"}

\* The objects NewCaddy allocates are object 0; a Caddy not yet minted
\* points nowhere.
NewRefs == [fld \in Fields |-> 0]
NoRefs == [fld \in Fields |-> -1]

\* Faulty variant of NewCaddy: the constructor starts the listener goroutine itself.
NewCaddyEager(stopOnOS) ==
    /\ o = FALSE
    /\ wg = 1
    /\ stopChan = "open"
    /\ sigChan = "open"
    /\ notifyDefault = stopOnOS
    /\ notified = stopOnOS
    /\ listener = "recv"
    /\ sigVal = ZeroSig
    /\ closes = 0
    /\ isTopLevel = [c \in Caddies |-> c = RootCaddy]
    /\ ref = [c \in Caddies |-> IF c = RootCaddy THEN NewRefs ELSE NoRefs]
    /\ nCaddy = 1

\* NewCaddy(stopOnOS): nothing is started, the counter is zero.
NewCaddy(stopOnOS) ==
    /\ o = FALSE
    /\ wg = 0
    /\ stopChan = "open"
    /\ sigChan = "open"
    /\ notifyDefault = stopOnOS
    /\ notified = FALSE
    /\ listener = "none"
    /\ sigVal = ZeroSig
    /\ closes = 0
    /\ isTopLevel = [c \in Caddies |-> c = RootCaddy]
    /\ ref = [c \in Caddies |-> IF c = RootCaddy THEN NewRefs ELSE NoRefs]
    /\ nCaddy = 1

Init ==
    /\ \E stopOnOS \in BOOLEAN : NewCaddy(stopOnOS)
    /\ crashed = NoPanic
    /\ pc = [p \in Procs |-> IF p \in Roots THEN "idle" ELSE "none"]
    /\ callCaddy = [p \in Procs |-> RootCaddy]
    /\ taskCaddy = [t \in Tasks |-> RootCaddy]
    /\ nTasks = 0
    /\ ret = [p \in Procs |-> "none"]
    /\ runImm = [p \in Roots |-> FALSE]
    /\ looped = FALSE
    /\ hist = HistInit

\* ------------------------------------------------------------- helpers
Running == crashed = NoPanic

\* An unrecovered panic, raised in operation how, ends the process: every
\* goroutine is gone, with its locals.
panicIn(cause, how) ==
    /\ crashed' = cause
    /\ pc' = [p \in Procs |-> "dead"]
    /\ callCaddy' = [p \in Procs |-> RootCaddy]
    /\ ret' = [p \in Procs |-> "none"]
    /\ runImm' = [p \in Roots |-> FALSE]
    /\ UNCHANGED looped
    /\ hist' = [hist EXCEPT !.lateGo = {}, !.overtaken = {},
                            !.passedClosed = {}, !.afterStop = -1,
                            !.calledStopped = FALSE, !.panicIn = how]

panic(cause) == panicIn(cause, "other")

locals == <<pc, callCaddy, ret, runImm, looped, hist>>

\* case <-c.stopChan: a receive on stopChan succeeds iff it is closed.
Stopped == stopChan = "closed"

\* Faulty variant of GoChecks: Go reads stopChan on every Caddy.
GoChecksAlways(c) == TRUE

\* Faulty variant of GoChecks: Go never reads stopChan.
GoChecksNever(c) == FALSE

\* if c.isTopLevel { select { case <-c.stopChan: ... } }: only a top-level
\* Caddy reads stopChan in Go.
GoChecks(c) == isTopLevel[c]

\* Faulty variant of Add: a positive Add is lost (the goroutine is not registered).
AddLost(delta) == IF delta > 0 THEN wg ELSE wg + delta

\* c.wg.Add(delta): the new counter; c.wg.Done() is Add(-1).
Add(delta) == wg + delta

\* Faulty variant of WaitDone: Wait returns while one goroutine is still counted.
WaitDoneEarly == wg <= 1

\* c.wg.Wait() returns when the counter is zero.
WaitDone == wg = 0

\* Faulty variant of ListenerFires: the listener closes stopChan only for a value
\* that was sent (v, ok := <-c.sigChan; if ok { close(c.stopChan) }).
ListenerFiresIfSent(v) == v # ZeroSig

\* Faulty variant of ListenerFires: the listener reacts to SIGTERM only.
ListenerFiresOnTerm(v) == v = SIGTERM

\* The listener closes stopChan after its receive whatever it received
\* (the received value is discarded).
ListenerFires(v) == TRUE

\* Caddies a goroutine calls methods on: an untracked goroutine holds the
\* root Caddy, a tracked one the Caddy passed to its function.
CaddiesOf(p) == IF p \in Roots THEN {RootCaddy} ELSE {taskCaddy[p]}

InGo == {p \in Procs : pc[p] \in {"go_check", "go_add"}}

\* Bound: a Go call starts only while a goroutine slot is left for it.
Room == nTasks + Cardinality(InGo) < MaxTasks

\* Goroutines inside a Looper call.
InLooper ==
    \E p \in Roots : pc[p] \in {"loop_start", "loop_f", "loop_select", "loop_check"}

\* Faulty variant of listen: no sync.Once, every call starts a listener.
listenNoOnce ==
    /\ o' = TRUE
    /\ notified' = notifyDefault
    /\ wg' = Add(1)
    /\ listener' = "recv"

\* Faulty variant of listen: the Once is armed again when the listener has exited.
listenRestart ==
    IF o /\ listener # "done"
    THEN UNCHANGED <<o, wg, notified, listener>>
    ELSE /\ o' = TRUE
         /\ notified' = notifyDefault
         /\ wg' = Add(1)
         /\ listener' = "recv"

\* Faulty variant of listen: the listener goroutine is not added to the wait group.
listenUncounted ==
    IF o
    THEN UNCHANGED <<o, wg, notified, listener>>
    ELSE /\ o' = TRUE
         /\ notified' = notifyDefault
         /\ listener' = "recv"
         /\ UNCHANGED wg

\* c.listen(): the body of c.o.Do runs on the first call only; it registers
\* for OS signals when *c.notifyDefault, adds the listener to wg and starts it.
listen ==
    IF o
    THEN UNCHANGED <<o, wg, notified, listener>>
    ELSE /\ o' = TRUE
         /\ notified' = notifyDefault
         /\ wg' = Add(1)
         /\ listener' = "recv"

\* Faulty variant of copy: the new Caddy gets objects of its own.
copyDeep(c) ==
    [isTopLevel |-> FALSE, ref |-> [fld \in Fields |-> nCaddy]]

\* c.copy(): a new Caddy c2 with every reference field copied from c
\* (c2.o = c.o, c2.wg = c.wg, ...) and isTopLevel = false.
copy(c) ==
    [isTopLevel |-> FALSE, ref |-> [fld \in Fields |-> ref[c][fld]]]

\* ------------------------------------------------------------------ Go
\* Go, first statement: c.listen().
GoCall(p, c) ==
    /\ Running /\ p # Helper /\ pc[p] = "idle" /\ c \in CaddiesOf(p) /\ Room
    /\ listen
    /\ pc' = [pc EXCEPT ![p] = "go_check"]
    /\ callCaddy' = [callCaddy EXCEPT ![p] = c]
    /\ ret' = [ret EXCEPT ![p] = "none"]
    /\ hist' = [hist EXCEPT
                  !.lateGo = IF hist.stopReturned \/ sigChan = "closed"
                             THEN @ \cup {p} ELSE @,
                  !.waited = IF @ = "fresh" THEN "no" ELSE @]
    /\ UNCHANGED <<stopChan, sigChan, notifyDefault, sigVal, closes, crashed,
                   caddies, loopv>>

\* Go, the admission check: a top-level Caddy returns ErrStopping when
\* stopChan is closed; otherwise the call goes on to wg.Add.
GoCheck(p) ==
    /\ Running /\ pc[p] = "go_check"
    /\ IF GoChecks(callCaddy[p]) /\ Stopped
       THEN /\ pc' = [pc EXCEPT ![p] = "idle"]
            /\ ret' = [ret EXCEPT ![p] = ErrStopping]
            /\ callCaddy' = [callCaddy EXCEPT ![p] = RootCaddy]
            /\ hist' = [hist EXCEPT !.lateGo = @ \ {p}]
       ELSE /\ pc' = [pc EXCEPT ![p] = "go_add"]
            /\ hist' = [hist EXCEPT !.passedClosed =
                          IF Stopped THEN @ \cup {p} ELSE @]
            /\ UNCHANGED <<ret, callCaddy>>
    /\ UNCHANGED <<shared, notifyDefault, crashed, caddies, loopv>>

\* Go, the rest: c2 (a copy for a top-level Caddy, c itself otherwise),
\* c.wg.Add(1), go func() { defer c.wg.Done(); f(c2) }(), return nil.
GoAdd(p) ==
    /\ Running /\ pc[p] = "go_add"
    /\ LET c == callCaddy[p]
           t == nTasks + 1
       IN /\ wg' = Add(1)
          /\ nTasks' = t
          /\ IF isTopLevel[c]
             THEN /\ isTopLevel' = [isTopLevel EXCEPT
                                       ![nCaddy] = copy(c).isTopLevel]
                  /\ ref' = [ref EXCEPT ![nCaddy] = copy(c).ref]
                  /\ nCaddy' = nCaddy + 1
                  /\ taskCaddy' = [taskCaddy EXCEPT ![t] = nCaddy]
             ELSE /\ UNCHANGED <<isTopLevel, nCaddy, ref>>
                  /\ taskCaddy' = [taskCaddy EXCEPT ![t] = c]
          /\ pc' = [pc EXCEPT ![p] = "idle", ![t] = "idle"]
          /\ ret' = [ret EXCEPT ![p] = Nil]
    /\ callCaddy' = [callCaddy EXCEPT ![p] = RootCaddy]
    /\ hist' = [hist EXCEPT !.overtaken = @ \ {p}, !.lateGo = @ \ {p},
                            !.passedClosed = @ \ {p}]
    /\ UNCHANGED <<o, stopChan, sigChan, notifyDefault, notified, listener,
                   sigVal, closes, crashed, loopv>>

\* ---------------------------------------------------------------- Wait
WaitCall(p) ==
    /\ Running /\ p \in Roots /\ pc[p] = "idle"
    /\ pc' = [pc EXCEPT ![p] = "wait"]
    /\ ret' = [ret EXCEPT ![p] = "none"]
    /\ UNCHANGED <<shared, notifyDefault, crashed, callCaddy, caddies, loopv,
                   hist>>

\* c.wg.Wait() returns.
WaitReturn(p) ==
    /\ Running /\ pc[p] = "wait"
    /\ WaitDone
    /\ pc' = [pc EXCEPT ![p] = "idle"]
    /\ hist' = [hist EXCEPT
                  !.waited = IF o THEN "used" ELSE "fresh",
                  !.overtaken = @ \cup {q \in Procs : pc[q] = "go_add"
                                          /\ GoChecks(callCaddy[q])}]
    /\ UNCHANGED <<shared, notifyDefault, crashed, callCaddy, caddies, ret,
                   loopv>>

\* ------------------------------------------------- Stop and SigChan()
\* Faulty variant of StopCall: Stop() starts the listener like Go and Looper.
StopCallListens(p) ==
    /\ Running /\ p \in Roots /\ pc[p] = "idle"
    /\ listen
    /\ pc' = [pc EXCEPT ![p] = "stop_send"]
    /\ ret' = [ret EXCEPT ![p] = "none"]
    /\ UNCHANGED <<stopChan, sigChan, notifyDefault, sigVal, closes, crashed,
                   callCaddy, caddies, loopv, hist>>

\* Stop() is called: its one statement is the send.
StopCall(p) ==
    /\ Running /\ p \in Roots /\ pc[p] = "idle"
    /\ pc' = [pc EXCEPT ![p] = "stop_send"]
    /\ ret' = [ret EXCEPT ![p] = "none"]
    /\ UNCHANGED <<shared, notifyDefault, crashed, callCaddy, caddies, loopv,
                   hist>>

\* Faulty variant of send: a send on the closed sigChan is a no-op that returns.
sendSafe(p, v, how) ==
    IF sigChan = "closed"
    THEN /\ pc' = [pc EXCEPT ![p] = "idle"]
         /\ UNCHANGED <<listener, sigVal, crashed, callCaddy, ret, runImm,
                        looped, hist>>
    ELSE /\ listener = "recv"
         /\ listener' = "closing"
         /\ sigVal' = v
         /\ pc' = [pc EXCEPT ![p] = "idle"]
         /\ hist' = [hist EXCEPT
                       !.stopReturned = @ \/ how = "stop",
                       !.trigger = how,
                       !.afterStop = IF how = "stop" /\ InLooper /\ @ < 0
                                     THEN 0 ELSE @]
         /\ UNCHANGED <<crashed, callCaddy, ret, runImm, looped>>

\* A send on the unbuffered sigChan: it panics when the channel is closed
\* and completes only together with the listener's receive.
send(p, v, how) ==
    IF sigChan = "closed"
    THEN /\ panicIn(SendOnClosed, how)
         /\ UNCHANGED <<listener, sigVal>>
    ELSE /\ listener = "recv"
         /\ listener' = "closing"
         /\ sigVal' = v
         /\ pc' = [pc EXCEPT ![p] = "idle"]
         /\ hist' = [hist EXCEPT
                       !.stopReturned = @ \/ how = "stop",
                       !.trigger = how,
                       !.afterStop = IF how = "stop" /\ InLooper /\ @ < 0
                                     THEN 0 ELSE @]
         /\ UNCHANGED <<crashed, callCaddy, ret, runImm, looped>>

\* Stop: c.sigChan <- syscall.SIGINT.
StopSend(p) ==
    /\ Running /\ pc[p] = "stop_send"
    /\ send(p, SIGINT, "stop")
    /\ UNCHANGED <<o, wg, stopChan, sigChan, notifyDefault, notified, closes,
                   caddies>>

\* A caller writes a value into the channel SigChan() returned.
SigSendCall(p) ==
    /\ Running /\ p \in Roots /\ pc[p] = "idle"
    /\ pc' = [pc EXCEPT ![p] = "sig_send"]
    /\ ret' = [ret EXCEPT ![p] = "none"]
    /\ UNCHANGED <<shared, notifyDefault, crashed, callCaddy, caddies, loopv,
                   hist>>

SigSend(p) ==
    /\ Running /\ pc[p] = "sig_send"
    /\ \E v \in SigVals : send(p, v, "write")
    /\ UNCHANGED <<o, wg, stopChan, sigChan, notifyDefault, notified, closes,
                   caddies>>

\* A caller closes the channel SigChan() returned; closing a closed channel
\* panics.
SigClose(p) ==
    /\ Running /\ p \in Roots /\ pc[p] = "idle"
    /\ IF sigChan = "closed"
       THEN /\ panic(CloseOfClosed)
            /\ UNCHANGED sigChan
       ELSE /\ sigChan' = "closed"
            /\ UNCHANGED <<crashed, locals>>
    /\ UNCHANGED <<o, wg, stopChan, notifyDefault, notified, listener, sigVal,
                   closes, caddies>>

\* The signal package delivers SIGINT or SIGTERM to a channel registered by
\* signal.Notify with a non-blocking send.
OsSignal ==
    /\ Running /\ notified
    /\ IF sigChan = "closed"
       THEN /\ panicIn(SendOnClosed, "os")
            /\ UNCHANGED <<listener, sigVal>>
       ELSE /\ listener = "recv"
            /\ listener' = "closing"
            /\ \E v \in {SIGINT, SIGTERM} : sigVal' = v
            /\ hist' = [hist EXCEPT !.trigger = "os"]
            /\ UNCHANGED <<crashed, pc, callCaddy, ret, runImm, looped>>
    /\ UNCHANGED <<o, wg, stopChan, sigChan, notifyDefault, notified, closes,
                   caddies>>

\* ------------------------------------------------------------ listener
\* <-c.sigChan on a closed channel yields the zero value at once.
ListenerRecvClosed ==
    /\ Running /\ listener = "recv" /\ sigChan = "closed"
    /\ listener' = "closing"
    /\ sigVal' = ZeroSig
    /\ hist' = [hist EXCEPT !.trigger = "close"]
    /\ UNCHANGED <<o, wg, stopChan, sigChan, notifyDefault, notified, closes,
                   crashed, pc, callCaddy, caddies, ret, loopv>>

\* close(c.stopChan); closing a closed channel panics.
ListenerClose ==
    /\ Running /\ listener = "closing"
    /\ listener' = "exiting"
    /\ IF ListenerFires(sigVal)
       THEN /\ closes' = closes + 1
            /\ IF stopChan = "closed"
               THEN panic(CloseOfClosed) /\ UNCHANGED stopChan
               ELSE stopChan' = "closed" /\ UNCHANGED <<crashed, locals>>
       ELSE UNCHANGED <<stopChan, closes, crashed, locals>>
    /\ UNCHANGED <<o, wg, sigChan, notifyDefault, notified, sigVal, caddies>>

\* Faulty variant of ListenerDone: the listener goes back to receiving from
\* sigChan instead of exiting.
ListenerDoneAgain ==
    /\ Running /\ listener = "exiting"
    /\ listener' = "recv"
    /\ sigVal' = ZeroSig
    /\ hist' = [hist EXCEPT !.trigger = "none"]
    /\ UNCHANGED <<o, wg, stopChan, sigChan, notifyDefault, notified, closes,
                   crashed, pc, callCaddy, caddies, ret, loopv>>

\* defer c.wg.Done() of the listener; the goroutine and the value it
\* received are gone.
ListenerDone ==
    /\ Running /\ listener = "exiting"
    /\ listener' = "done"
    /\ wg' = Add(-1)
    /\ sigVal' = ZeroSig
    /\ hist' = [hist EXCEPT !.trigger = "none"]
    /\ UNCHANGED <<o, stopChan, sigChan, notifyDefault, notified, closes,
                   crashed, pc, callCaddy, caddies, ret, loopv>>

\* --------------------------------------------------- tracked goroutines
\* The function blocks on a channel of its own (Test_Blocking).
TaskBlock(t) ==
    /\ Running /\ t \in Tasks /\ pc[t] = "idle"
    /\ pc' = [pc EXCEPT ![t] = "blocked"]
    /\ UNCHANGED <<shared, notifyDefault, crashed, callCaddy, caddies, ret,
                   loopv, hist>>

TaskUnblock(t) ==
    /\ Running /\ t \in Tasks /\ pc[t] = "blocked"
    /\ pc' = [pc EXCEPT ![t] = "idle"]
    /\ UNCHANGED <<shared, notifyDefault, crashed, callCaddy, caddies, ret,
                   loopv, hist>>

\* f(c2) increments the callers' counter and returns; the deferred
\* c.wg.Done() runs.
TaskExit(t) ==
    /\ Running /\ t \in Tasks /\ pc[t] = "idle"
    /\ pc' = [pc EXCEPT ![t] = "done"]
    /\ wg' = Add(-1)
    /\ hist' = [hist EXCEPT !.counter = @ + 1]
    /\ UNCHANGED <<o, stopChan, sigChan, notifyDefault, notified, listener,
                   sigVal, closes, crashed, callCaddy, caddies, ret, loopv>>

\* Faulty variant of TaskPanic: wg.Done() is not deferred and a panic skips it.
TaskPanicNoDefer(t) ==
    /\ Running /\ t \in Tasks /\ pc[t] = "idle"
    /\ panic(PanicInF)
    /\ UNCHANGED <<o, wg, stopChan, sigChan, notifyDefault, notified, listener,
                   sigVal, closes, caddies>>

\* f(c2) panics: the deferred c.wg.Done() runs while the stack unwinds, then
\* the unrecovered panic ends the process.
TaskPanic(t) ==
    /\ Running /\ t \in Tasks /\ pc[t] = "idle"
    /\ wg' = Add(-1)
    /\ panic(PanicInF)
    /\ UNCHANGED <<o, stopChan, sigChan, notifyDefault, notified, listener,
                   sigVal, closes, caddies>>

\* -------------------------------------------------------------- Looper
\* f(): the looped function is invoked. Its body is the caller's and
\* touches no Caddy state.
f(p) == pc' = [pc EXCEPT ![p] = "loop_f"]

\* An invocation of f from inside the loop, tallied as one started since a
\* Stop() returned when that is so.
fInLoop(p) ==
    /\ f(p)
    /\ hist' = [hist EXCEPT !.afterStop = IF @ < 0 THEN @ ELSE Tally(@)]

\* Looper returns to its caller.
LooperReturn(p) ==
    /\ pc' = [pc EXCEPT ![p] = "idle"]
    /\ hist' = [hist EXCEPT !.afterStop = -1, !.calledStopped = FALSE]

\* Looper, first statement: c.listen(); the tick channel is then set up.
\* Bound: Main makes one Looper call in a behaviour.
LooperCall(p, runImmediately) ==
    /\ Running /\ p = Main /\ pc[p] = "idle" /\ ~looped
    /\ listen
    /\ looped' = TRUE
    /\ pc' = [pc EXCEPT ![p] = "loop_start"]
    /\ runImm' = [runImm EXCEPT ![p] = runImmediately]
    /\ ret' = [ret EXCEPT ![p] = "none"]
    /\ hist' = [hist EXCEPT
                  !.calledStopped = Stopped,
                  !.waited = IF @ = "fresh" THEN "no" ELSE @]
    /\ UNCHANGED <<stopChan, sigChan, notifyDefault, sigVal, closes, crashed,
                   callCaddy, caddies>>

\* Faulty variant of LooperRunImmediately: the first run is skipped when
\* stopChan is already closed.
LooperRunImmediatelyIfOpen(p) ==
    /\ Running /\ pc[p] = "loop_start"
    /\ IF runImm[p] /\ ~Stopped
       THEN f(p) /\ UNCHANGED hist
       ELSE /\ pc' = [pc EXCEPT ![p] = "loop_select"]
            /\ hist' = [hist EXCEPT !.calledStopped = FALSE]
    /\ runImm' = [runImm EXCEPT ![p] = FALSE]
    /\ UNCHANGED <<shared, notifyDefault, crashed, callCaddy, caddies, ret,
                   looped>>

\* if runImmediately { f() }, then on to the loop.
LooperRunImmediately(p) ==
    /\ Running /\ pc[p] = "loop_start"
    /\ IF runImm[p]
       THEN f(p) /\ UNCHANGED hist
       ELSE /\ pc' = [pc EXCEPT ![p] = "loop_select"]
            /\ hist' = [hist EXCEPT !.calledStopped = FALSE]
    /\ runImm' = [runImm EXCEPT ![p] = FALSE]
    /\ UNCHANGED <<shared, notifyDefault, crashed, callCaddy, caddies, ret,
                   looped>>

\* f returns; the loop goes (back) to its select.
LooperFReturn(p) ==
    /\ Running /\ pc[p] = "loop_f"
    /\ pc' = [pc EXCEPT ![p] = "loop_select"]
    /\ hist' = [hist EXCEPT !.calledStopped = FALSE]
    /\ UNCHANGED <<shared, notifyDefault, crashed, callCaddy, caddies, ret,
                   loopv>>

\* select: case <-t.
LooperTick(p) ==
    /\ Running /\ pc[p] = "loop_select"
    /\ pc' = [pc EXCEPT ![p] = "loop_check"]
    /\ UNCHANGED <<shared, notifyDefault, crashed, callCaddy, caddies, ret,
                   loopv, hist>>

\* Faulty variant of LooperCheck: no second look at stopChan after a tick.
LooperCheckNoStop(p) ==
    /\ Running /\ pc[p] = "loop_check"
    /\ fInLoop(p)
    /\ UNCHANGED <<shared, notifyDefault, crashed, callCaddy, caddies, ret,
                   loopv>>

\* After a tick: return when stopChan is closed, else f().
LooperCheck(p) ==
    /\ Running /\ pc[p] = "loop_check"
    /\ IF Stopped THEN LooperReturn(p) ELSE fInLoop(p)
    /\ UNCHANGED <<shared, notifyDefault, crashed, callCaddy, caddies, ret,
                   loopv>>

\* Faulty variant of LooperStop: the loop also returns while stopChan is open.
LooperStopEarly(p) ==
    /\ Running /\ pc[p] = "loop_select"
    /\ LooperReturn(p)
    /\ UNCHANGED <<shared, notifyDefault, crashed, callCaddy, caddies, ret,
                   loopv>>

\* Faulty variant of LooperStop: the outer select has no stopChan case, the
\* loop waits for the next tick.
LooperStopIgnored(p) ==
    /\ Running /\ pc[p] = "loop_select"
    /\ Stopped
    /\ UNCHANGED vars

\* select: case <-c.stopChan: return.
LooperStop(p) ==
    /\ Running /\ pc[p] = "loop_select"
    /\ Stopped
    /\ LooperReturn(p)
    /\ UNCHANGED <<shared, notifyDefault, crashed, callCaddy, caddies, ret,
                   loopv>>

\* ------------------------------------------------------- specification
Next ==
    \/ \E p \in Procs : \E c \in CaddiesOf(p) : GoCall(p, c)
    \/ \E p \in Procs : GoCheck(p)
    \/ \E p \in Procs : GoAdd(p)
    \/ \E p \in Roots : WaitCall(p)
    \/ \E p \in Roots : WaitReturn(p)
    \/ \E p \in Roots : StopCall(p)
    \/ \E p \in Roots : StopSend(p)
    \/ \E p \in Roots : SigSendCall(p)
    \/ \E p \in Roots : SigSend(p)
    \/ \E p \in Roots : SigClose(p)
    \/ OsSignal
    \/ ListenerRecvClosed
    \/ ListenerClose
    \/ ListenerDone
    \/ \E t \in Tasks : TaskBlock(t)
    \/ \E t \in Tasks : TaskUnblock(t)
    \/ \E t \in Tasks : TaskExit(t)
    \/ \E t \in Tasks : TaskPanic(t)
    \/ \E p \in Roots : \E ri \in BOOLEAN : LooperCall(p, ri)
    \/ \E p \in Roots : LooperRunImmediately(p)
    \/ \E p \in Roots : LooperFReturn(p)
    \/ \E p \in Roots : LooperTick(p)
    \/ \E p \in Roots : LooperCheck(p)
    \/ \E p \in Roots : LooperStop(p)

Spec == Init /\ [][Next]_vars

\* Fairness of the Go scheduler: every goroutine that can take its next step
\* inside a call does so; the listener runs. No goroutine is obliged to start
\* a call. A tracked function that can return again and again does return
\* (the tasks of the callers terminate).
Fairness ==
    /\ \A p \in Procs : WF_vars(GoCheck(p)) /\ WF_vars(GoAdd(p))
    /\ \A p \in Roots : /\ WF_vars(WaitReturn(p))
                         /\ WF_vars(StopSend(p))
                         /\ WF_vars(SigSend(p))
                         /\ WF_vars(LooperRunImmediately(p))
                         /\ WF_vars(LooperFReturn(p))
                         /\ WF_vars(LooperCheck(p))
                         /\ WF_vars(LooperStop(p))
    /\ WF_vars(ListenerRecvClosed)
    /\ WF_vars(ListenerClose)
    /\ WF_vars(ListenerDone)
    /\ \A t \in Tasks : WF_vars(TaskUnblock(t)) /\ SF_vars(TaskExit(t))

FairSpec == Spec /\ Fairness

TypeOK ==
    /\ o \in BOOLEAN
    /\ wg \in 0..(MaxTasks + 1)
    /\ stopChan \in {"open", "closed"}
    /\ sigChan \in {"open", "closed"}
    /\ listener \in {"none", "recv", "closing", "exiting", "done"}
    /\ sigVal \in SigVals \cup {ZeroSig}
    /\ closes \in 0..1
    /\ nTasks \in 0..MaxTasks
    /\ nCaddy \in 1..(MaxTasks + 1)
    /\ crashed \in {NoPanic, SendOnClosed, CloseOfClosed, PanicInF}
    /\ looped \in BOOLEAN
    /\ hist.counter \in 0..MaxTasks
    /\ hist.afterStop \in -1..2
    /\ \A c \in Caddies : ref[c] \in {NewRefs, NoRefs}

\* Tracked goroutines whose function has not returned.
Live == {t \in Tasks : pc[t] \in {"idle", "go_check", "go_add", "blocked"}}

\* The listener goroutine has been started and has not yet called wg.Done.
ListenerLive == listener \in {"recv", "closing", "exiting"}

\* A goroutine is inside a Looper call.
LoopPcs == {"loop_start", "loop_f", "loop_select", "loop_check"}

\* The Looper call of the behaviour has returned.
LooperReturned == Running /\ looped /\ pc[Main] \notin LoopPcs

\* ---------------------------------------------------------------- claims

\* C1: after a Stop() call has returned, or sigChan has been closed, every
\* later Go on a top-level Caddy returns ErrStopping: no such call gets past
\* the admission check to the point whose only exit is "return nil".
C1_LateGoRefused ==
    \A p \in Procs :
        (p \in hist.lateGo /\ isTopLevel[callCaddy[p]]) => pc[p] # "go_add"

\* C2: a Go on a Caddy that is not top-level never returns ErrStopping: its
\* check always lets it through, and it then returns nil, increments the
\* wait group and starts the task with the same Caddy.
C2_NonRootGoSucceeds ==
    [][\A p \in Procs :
          (~isTopLevel[callCaddy[p]] /\ crashed' = NoPanic) =>
             /\ (pc[p] = "go_check" /\ pc'[p] # "go_check") =>
                    (pc'[p] = "go_add" /\ ret'[p] # ErrStopping)
             /\ (pc[p] = "go_add" /\ pc'[p] # "go_add") =>
                    /\ ret'[p] = Nil
                    /\ wg' = wg + 1
                    /\ nTasks' = nTasks + 1
                    /\ pc[nTasks'] = "none" /\ pc'[nTasks'] = "idle"
                    /\ taskCaddy'[nTasks'] = callCaddy[p]]_vars

\* C2 witness: a tracked goroutine's Go on its own Caddy has gone past the
\* check although stopChan was closed.
C2_Witness ==
    \E t \in Tasks : /\ t \in hist.passedClosed
                      /\ pc[t] = "go_add"
                      /\ ~isTopLevel[callCaddy[t]]

\* C3: Wait returns only when no tracked goroutine (task or listener) is
\* still running, blocked ones included.
C3_WaitCoversLive ==
    [][\A p \in Roots :
          (pc[p] = "wait" /\ pc'[p] = "idle") =>
             (Live = {} /\ ~ListenerLive)]_vars

\* C3 witness: stop has fired and the listener has exited, a task is blocked
\* on a channel of its own, and a Wait is blocked with it.
C3_Witness ==
    /\ Stopped /\ listener = "done"
    /\ \E t \in Tasks : pc[t] = "blocked"
    /\ \E p \in Roots : pc[p] = "wait"

\* C4: no Go on a top-level Caddy that saw stopChan open registers its task
\* after a Wait has since seen the counter at zero and returned.
C4_NoAddAfterWait ==
    [][\A p \in Procs :
          p \in hist.overtaken => ~(pc'[p] = "idle" /\ wg' = wg + 1)]_vars

\* The premise of C5 and C6: the listener has been started and a Stop() call
\* is at its send.
StopRequested == Running /\ o /\ \E p \in Roots : pc[p] = "stop_send"

\* C5: once the listener has been started and Stop() is called, and every
\* tracked function returns, stopChan is eventually closed, the counter
\* eventually reaches zero and a blocked Wait eventually returns (unless a
\* panic ends the process first).
C5_StopDrains ==
    /\ StopRequested ~> (Stopped \/ ~Running)
    /\ StopRequested ~> (wg = 0 \/ ~Running)
    /\ \A q \in Roots :
          (StopRequested /\ pc[q] = "wait") ~> (pc[q] = "idle" \/ ~Running)

\* C5 witness: the drain has happened: a Stop() has returned, stopChan is
\* closed, a task has run and exited, the counter is zero and a Wait has
\* returned.
C5_Witness ==
    /\ hist.stopReturned /\ Stopped /\ wg = 0 /\ hist.waited = "used"
    /\ nTasks > 0 /\ Live = {}

\* C6: a Stop() call that is at its send when an earlier Stop() has returned
\* and stop has fired eventually returns (here even allowing the process to
\* end by a panic instead).
C6_LaterStopReturns ==
    \A p \in Roots :
        (pc[p] = "stop_send" /\ Stopped /\ hist.stopReturned)
            ~> (pc[p] = "idle" \/ ~Running)

\* C7: whatever served the listener's receive (Stop(), a write of any value
\* into SigChan(), its close, or a signal delivered by the os), the listener
\* then closes stopChan, for the first and only time, leaves the counter
\* alone while doing so, and gives up its own count on exit: the three
\* requests leave the same stopChan and counter.
C7_SameEffect ==
    [][/\ (listener = "closing" /\ listener' = "exiting") =>
             /\ hist.trigger \in {"stop", "write", "close", "os"}
             /\ stopChan = "open" /\ stopChan' = "closed"
             /\ closes = 0 /\ closes' = 1
             /\ wg' = wg
       /\ (listener = "exiting" /\ listener' = "done") =>
             (stopChan' = "closed" /\ closes' = 1 /\ wg' = wg - 1)]_vars

\* C7 witness: the listener has closed stopChan after a receive served by
\* the close of sigChan.
C7_Witness ==
    listener = "exiting" /\ hist.trigger = "close" /\ Stopped /\ Running

\* C8: stopChan is closed at most once and, once closed, stays closed.
C8_ClosedOnceForever ==
    [][/\ closes' <= 1
       /\ Stopped => (stopChan' = "closed" /\ closes' = closes)]_vars

\* C8 witness: after the broadcast a Go on the root Caddy has read stopChan
\* as closed, and further stop requests are pending.
C8_Witness ==
    /\ Stopped /\ closes = 1
    /\ \E p \in Roots : ret[p] = ErrStopping
    /\ \E p \in Roots : pc[p] \in {"stop_send", "sig_send"}

\* C9: while neither Go nor Looper has been called the listener is not
\* started and the counter is zero, so that Wait returns at once.
C9_FreshWaitReturns ==
    (~o /\ Running) => (listener = "none" /\ wg = 0 /\ WaitDone)

\* C9 witness: a Wait has returned on a Caddy nothing was spawned on.
C9_Witness == ~o /\ hist.waited = "fresh"

\* C10: once Go or Looper has been called, Wait returns only after stopChan
\* has been closed.
C10_WaitNeedsStop ==
    [][\A p \in Roots :
          (o /\ pc[p] = "wait" /\ pc'[p] = "idle") => Stopped]_vars

\* C10 witness: every task has finished and the listener still waits for a
\* signal: the counter is not zero and a Wait is blocked.
C10_Witness ==
    /\ o /\ ~Stopped /\ listener = "recv"
    /\ nTasks > 0 /\ Live = {} /\ wg = 1
    /\ \E p \in Roots : pc[p] = "wait"

\* C11: when a Wait returns, every tracked goroutine spawned so far, through
\* the root Caddy or through a task's own Caddy, has made its one increment
\* of the shared counter: the counter equals the number of tasks spawned.
C11_CounterIsTasks ==
    [][\A p \in Roots :
          (pc[p] = "wait" /\ pc'[p] = "idle") =>
             hist'.counter = nTasks']_vars

\* C11 witness: a task and the child it spawned through its own Caddy have
\* both incremented, Stop() has returned and a Wait has returned after it.
C11_Witness ==
    /\ hist.stopReturned /\ hist.waited = "used" /\ Stopped /\ wg = 0
    /\ nTasks = 2 /\ taskCaddy[2] = taskCaddy[1] /\ hist.counter = 2

\* C12: once a Stop() has returned during a Looper call (made from inside f
\* or by another goroutine), the loop starts at most one more invocation of
\* f.
C12_AtMostOneMore == hist.afterStop <= 1

\* C13: inside the loop f is invoked only by the step that has just seen
\* stopChan open after a tick; Looper returns only from its select or its
\* check, and only with stopChan closed; a check that sees stopChan closed
\* returns without running f.
C13_LoopGuarded ==
    [][\A p \in Roots :
          /\ (pc'[p] = "loop_f" /\ pc[p] # "loop_f") =>
                \/ pc[p] = "loop_start"
                \/ pc[p] = "loop_check" /\ ~Stopped
          /\ (pc[p] \in LoopPcs /\ pc'[p] = "idle") =>
                (Stopped /\ pc[p] \in {"loop_select", "loop_check"})
          /\ (pc[p] = "loop_check" /\ Stopped /\ pc'[p] # "loop_check"
                /\ crashed' = NoPanic) => pc'[p] = "idle"]_vars

\* C13 witness: a tick has been taken and stopChan is closed (by a request
\* other than a Stop() made during the call): the loop is at its check, which
\* must return without running f.
C13_Witness ==
    pc[Main] = "loop_check" /\ Stopped /\ hist.afterStop = -1 /\ Running

\* C14: once stopChan is closed, a Looper call in progress (whose current
\* invocation of f, if any, returns) eventually returns to its caller,
\* whether or not a tick ever arrives.
C14_LooperExits ==
    \A p \in Roots :
        (Stopped /\ pc[p] \in LoopPcs) ~> (pc[p] = "idle" \/ ~Running)

\* C14 witness: the Looper call has returned on a coordinator that a Stop()
\* call stopped.
C14_Witness ==
    LooperReturned /\ pc[Main] = "idle" /\ Stopped /\ hist.stopReturned

\* C15: the step after Looper's set-up invokes f when runImmediately is true,
\* whether stopChan is open or closed, and goes to the loop's select without
\* invoking f when it is false; when that invocation returns the loop waits
\* at its select.
C15_RunsOnceFirst ==
    [][\A p \in Roots :
          /\ (pc[p] = "loop_start" /\ pc'[p] # "loop_start"
                /\ crashed' = NoPanic) =>
                pc'[p] = (IF runImm[p] THEN "loop_f" ELSE "loop_select")
          /\ (pc[p] = "loop_f" /\ pc'[p] # "loop_f" /\ crashed' = NoPanic) =>
                pc'[p] = "loop_select"]_vars

\* C15 witness: the first run of a Looper call with runImmediately = true is
\* in progress (the loop has not been entered), and the call was made when
\* stopChan was already closed.
C15_Witness ==
    pc[Main] = "loop_f" /\ hist.calledStopped /\ Stopped /\ Running

\* C16: after the Looper call has returned, stopChan is closed, and every Go
\* on a top-level Caddy whose check then runs returns ErrStopping without
\* registering or starting anything.
C16_GoAfterLooperFails ==
    /\ [](LooperReturned => Stopped)
    /\ [][\A p \in Procs :
             (LooperReturned /\ pc[p] = "go_check"
                /\ isTopLevel[callCaddy[p]]
                /\ pc'[p] # "go_check" /\ crashed' = NoPanic) =>
                /\ pc'[p] = "idle" /\ ret'[p] = ErrStopping
                /\ wg' = wg /\ nTasks' = nTasks
                /\ \A t \in Tasks : pc'[t] = pc[t]]_vars

\* C16 witness: Main's Go on the root Caddy, called after its Looper call
\* returned, has returned ErrStopping.
C16_Witness ==
    LooperReturned /\ pc[Main] = "idle" /\ ret[Main] = ErrStopping

\* C17: a Go call leaves its check with ErrStopping exactly when its Caddy
\* is top-level and stopChan is closed, and then nothing is registered or
\* started; otherwise it goes on to wg.Add and returns nil. No other step
\* makes a call return ErrStopping.
C17_ErrStoppingExactly ==
    [][\A p \in Procs :
          /\ (pc[p] = "go_check" /\ pc'[p] # "go_check"
                /\ crashed' = NoPanic) =>
                IF isTopLevel[callCaddy[p]] /\ Stopped
                THEN /\ pc'[p] = "idle" /\ ret'[p] = ErrStopping
                     /\ wg' = wg /\ nTasks' = nTasks
                     /\ \A t \in Tasks : pc'[t] = pc[t]
                ELSE pc'[p] = "go_add" /\ ret'[p] # ErrStopping
          /\ (pc[p] = "go_add" /\ pc'[p] # "go_add" /\ crashed' = NoPanic) =>
                (ret'[p] = Nil /\ wg' = wg + 1 /\ nTasks' = nTasks + 1)
          /\ (ret'[p] = ErrStopping /\ ret[p] # ErrStopping) =>
                (pc[p] = "go_check" /\ isTopLevel[callCaddy[p]] /\ Stopped)
      ]_vars

\* C17 witness: the only Go call made so far was refused: it returned
\* ErrStopping, no task exists and the counter is zero again.
C17_Witness ==
    /\ ret[Main] = ErrStopping /\ pc[Main] = "idle" /\ ~looped
    /\ nTasks = 0 /\ wg = 0 /\ Running

\* C18: the counter is never negative and, while the process runs, equals the
\* number of goroutines registered and not yet exited (tasks, plus the
\* listener); a function that panics still gives up its count.
C18_PendingBalanced ==
    /\ [](wg >= 0)
    /\ [](Running =>
            wg = Cardinality(Live) + (IF ListenerLive THEN 1 ELSE 0))
    /\ [][(crashed = NoPanic /\ crashed' = PanicInF) => wg' = wg - 1]_vars

\* C18 witness: a task's function has panicked while the listener and
\* another task were still counted.
C18_Witness == crashed = PanicInF /\ nTasks = 2 /\ wg = 2

C20_CaddyFrame ==
    /\ [](\A c \in 0..(nCaddy - 1) :
             ref[c] = NewRefs /\ (isTopLevel[c] <=> c = RootCaddy))
    /\ [][/\ \A c \in 0..(nCaddy - 1) : isTopLevel'[c] = isTopLevel[c]
          /\ \A p \in Procs :
               (pc[p] = "go_add" /\ pc'[p] # "go_add"
                  /\ crashed' = NoPanic) =>
                  IF isTopLevel[callCaddy[p]]
                  THEN /\ nCaddy' = nCaddy + 1
                       /\ taskCaddy'[nTasks'] = nCaddy
                       /\ ~isTopLevel'[nCaddy]
                       /\ ref'[nCaddy] = ref[callCaddy[p]]
                  ELSE /\ nCaddy' = nCaddy
                       /\ taskCaddy'[nTasks'] = callCaddy[p]]_vars

\* C20 witness: the root Caddy has spawned a task on a new Caddy, and that
\* task has spawned a second one on the Caddy it was handed.
C20_Witness ==
    /\ nCaddy = 2 /\ nTasks = 2 /\ isTopLevel[RootCaddy]
    /\ taskCaddy[1] = 1 /\ taskCaddy[2] = 1 /\ ~isTopLevel[1]

\* C21: a Stop() call at its send while sigChan is closed never returns:
\* its send panics with "send on closed channel", which ends the process,
\* and under the scheduler's fairness it does so (unless another panic ends
\* the process first).
C21_StopOnClosedPanics ==
    /\ [][\A p \in Roots :
             /\ (pc[p] = "stop_send" /\ sigChan = "closed") =>
                   pc'[p] \in {"stop_send", "dead"}
             /\ (StopSend(p) /\ sigChan = "closed") =>
                   (crashed' = SendOnClosed /\ pc'[p] = "dead")]_vars
    /\ \A p \in Roots :
          (pc[p] = "stop_send" /\ sigChan = "closed" /\ Running) ~> ~Running

\* C21 witness: the process has been ended by the panic of a Stop() call's
\* send on the closed sigChan.
C21_Witness ==
    crashed = SendOnClosed /\ hist.panicIn = "stop" /\ sigChan = "closed"

\* C22: Stop() does not start the listener; while neither Go nor Looper has
\* been called there is no listener, no Stop() returns and stopChan stays
\* open, whatever stopOnOS is.
C22_StopNeedsListener ==
    /\ []((~o /\ Running) =>
            (listener = "none" /\ stopChan = "open" /\ ~hist.stopReturned))
    /\ [][\A p \in Roots :
             /\ (pc[p] = "idle" /\ pc'[p] = "stop_send") =>
                   (o' = o /\ listener' = listener /\ wg' = wg)
             /\ (~o /\ pc[p] = "stop_send") => pc'[p] # "idle"]_vars

\* C22 witness: on a coordinator made with stopOnOS = false on which neither
\* Go nor Looper has been called, both untracked goroutines are blocked in
\* Stop().
C22_Witness ==
    /\ ~o /\ ~notifyDefault /\ sigChan = "open" /\ Running
    /\ \A p \in Roots : pc[p] = "stop_send"

\* C23: a send on sigChan (Stop() or a write into SigChan()) completes only
\* by handing its value to the listener's one receive; once a Stop() has
\* returned, or the listener has received, no send completes any more: a
\* Stop() at its send then stays there (or the process ends by a panic).
C23_OneSendCompletes ==
    [][\A p \in Roots :
          /\ (pc[p] \in {"stop_send", "sig_send"} /\ pc'[p] = "idle") =>
                /\ listener = "recv" /\ listener' = "closing"
                /\ sigChan = "open" /\ ~hist.stopReturned
                /\ \A q \in Roots \ {p} : pc'[q] = pc[q]
          /\ (pc[p] \in {"stop_send", "sig_send"}
                /\ (hist.stopReturned
                      \/ listener \in {"closing", "exiting", "done"})) =>
                pc'[p] \in {pc[p], "dead"}
          /\ listener \in {"closing", "exiting", "done"} =>
                listener' # "recv"]_vars

\* C23 witness: a Stop() has returned, the listener has closed stopChan and
\* exited, sigChan is open, and a further Stop() is blocked at its send.
C23_Witness ==
    /\ hist.stopReturned /\ listener = "done" /\ Stopped
    /\ sigChan = "open" /\ Running
    /\ \E p \in Roots : pc[p] = "stop_send"

====
